---- MODULE Spec2Model ----
(***************************************************************************)
(* Mode checking of operator definitions (checkModes, ModeCheckerVisitor,  *)
(* ModeFinderVisitor, moreGeneralMode).                                    *)
(*                                                                         *)
(* A module is a sequence of operator definitions in document order; the   *)
(* effect map gives each definition's inferred effect.  checkModes walks   *)
(* the module, folds every definition's effect to a mode and compares it   *)
(* with the declared qualifier.                                            *)
(***************************************************************************)
EXTENDS Integers, Sequences, FiniteSets, TLC

(***************************************************************************)
(* Bounds of the model.                                                    *)
(***************************************************************************)
\* The largest number of operator definitions in a checked module.
MaxDefs == 2

(***************************************************************************)
(* The mode lattice.                                                       *)
(***************************************************************************)
modeOrder == <<"staticval", "staticdef", "val", "def", "action", "temporal">>

OpQualifier == {modeOrder[i] : i \in DOMAIN modeOrder}

\* Array.prototype.findIndex with an equality test: the zero-based position
\* of the first element equal to m, or -1.
findIndex(m) ==
  IF \E i \in DOMAIN modeOrder : modeOrder[i] = m
  THEN (CHOOSE i \in DOMAIN modeOrder :
          /\ modeOrder[i] = m
          /\ \A j \in DOMAIN modeOrder : modeOrder[j] = m => i <= j) - 1
  ELSE -1

\* moreGeneralMode with the comparison turned around.
moreGeneralModeFlipped(m1, m2) ==
  LET p1 == findIndex(m1)
      p2 == findIndex(m2)
  IN IF p1 < p2 THEN m1 ELSE m2

moreGeneralMode(m1, m2) ==
  LET p1 == findIndex(m1)
      p2 == findIndex(m2)
  IN IF p1 > p2 THEN m1 ELSE m2

(***************************************************************************)
(* Effects.  A Variables object has an identity (ref): a JavaScript Set of *)
(* objects tests membership by identity, not by content.                   *)
(***************************************************************************)
VariablesObject(ref, kind, vs, members) ==
  [ref |-> ref, kind |-> kind, vars |-> vs, variables |-> members]

\* Reads nothing.
NoVars == VariablesObject(1, "concrete", {}, <<>>)
\* Reads state variable x.
VarsX == VariablesObject(2, "concrete", {"x"}, <<>>)
\* Another object that reads state variable x.
VarsXCopy == VariablesObject(3, "concrete", {"x"}, <<>>)
\* Reads state variable y.
VarsY == VariablesObject(4, "concrete", {"y"}, <<>>)
\* The union of the reads of x and of y.
UnionXY == VariablesObject(5, "union", {}, <<VarsX, VarsY>>)

ConcreteEffect(read, update, temporal) ==
  [kind |-> "concrete", read |-> read, update |-> update, temporal |-> temporal]

ArrowEffect(params, result) ==
  [kind |-> "arrow", params |-> params, result |-> result]

\* The state variables a Variables object names, unions flattened.
RECURSIVE VarNames(_)
VarNames(v) ==
  IF v.kind = "union"
  THEN UNION {VarNames(v.variables[i]) : i \in DOMAIN v.variables}
  ELSE v.vars

\* The classification predicates of the effect inference pass.
isAction(effect) == VarNames(effect.update) # {}
isTemporal(effect) == effect.temporal
isState(effect) == VarNames(effect.read) # {}

(***************************************************************************)
(* ModeFinderVisitor: the fold of one effect into a mode.  The accumulator *)
(* currentMode is threaded through the visit; TypeError stands for the     *)
(* exception a visit throws.                                               *)
(***************************************************************************)
TypeError == "TypeError"

\* exitConcrete testing isTemporal before isAction.
exitConcreteTemporalFirst(currentMode, effect) ==
  LET mode == IF isTemporal(effect) THEN "temporal"
              ELSE IF isAction(effect) THEN "action"
              ELSE IF isState(effect) THEN "val"
              ELSE "staticval"
  IN moreGeneralMode(currentMode, mode)

\* exitConcrete assigning the node's mode to the accumulator.
exitConcreteOverwrite(currentMode, effect) ==
  IF isAction(effect) THEN "action"
  ELSE IF isTemporal(effect) THEN "temporal"
  ELSE IF isState(effect) THEN "val"
  ELSE "staticval"

exitConcrete(currentMode, effect) ==
  LET mode == IF isAction(effect) THEN "action"
              ELSE IF isTemporal(effect) THEN "temporal"
              ELSE IF isState(effect) THEN "val"
              ELSE "staticval"
  IN moreGeneralMode(currentMode, mode)

\* exitArrow without the early return on the accumulator.
exitArrowNoGuard(currentMode, effect) ==
  LET concreteParams == {i \in DOMAIN effect.params : effect.params[i].kind = "concrete"}
      unbound == \E i \in concreteParams :
                    /\ effect.params[i].read.kind = "union"
                    /\ Len(effect.params[i].read.variables) > 0
      paramReads == {effect.params[i].read.ref :
                       i \in {j \in concreteParams : effect.params[j].read.kind # "union"}}
  IN IF unbound THEN TypeError
     ELSE IF effect.result.kind = "concrete"
     THEN IF /\ effect.result.read.kind = "union"
             /\ ~ \A i \in DOMAIN effect.result.read.variables :
                     effect.result.read.variables[i].ref \in paramReads
          THEN "def"
          ELSE IF effect.result.read.ref \notin paramReads
          THEN "def"
          ELSE "staticdef"
     ELSE "staticdef"

exitArrow(currentMode, effect) ==
  IF currentMode # "staticdef" /\ currentMode # "def"
  THEN currentMode
  ELSE
    LET concreteParams == {i \in DOMAIN effect.params : effect.params[i].kind = "concrete"}
        \* p.read.variables.forEach(paramReads.add) calls Set.prototype.add
        \* without a receiver: it throws on the first member.
        unbound == \E i \in concreteParams :
                      /\ effect.params[i].read.kind = "union"
                      /\ Len(effect.params[i].read.variables) > 0
        paramReads == {effect.params[i].read.ref :
                         i \in {j \in concreteParams : effect.params[j].read.kind # "union"}}
    IN IF unbound THEN TypeError
       ELSE IF effect.result.kind = "concrete"
       THEN IF /\ effect.result.read.kind = "union"
               /\ ~ \A i \in DOMAIN effect.result.read.variables :
                       effect.result.read.variables[i].ref \in paramReads
            THEN "def"
            ELSE IF effect.result.read.ref \notin paramReads
            THEN "def"
            ELSE "staticdef"
       ELSE "staticdef"

\* walkEffect: children before parents, parameters before the result.
RECURSIVE walkEffect(_, _)
RECURSIVE walkEffects(_, _)
walkEffects(currentMode, effs) ==
  IF effs = <<>> \/ currentMode = TypeError
  THEN currentMode
  ELSE walkEffects(walkEffect(currentMode, Head(effs)), Tail(effs))

walkEffect(currentMode, effect) ==
  IF currentMode = TypeError THEN TypeError
  ELSE IF effect.kind = "concrete" THEN exitConcrete(currentMode, effect)
  ELSE LET afterParams == walkEffects(currentMode, effect.params)
           afterResult == walkEffects(afterParams, <<effect.result>>)
       IN IF afterResult = TypeError THEN TypeError
          ELSE exitArrow(afterResult, effect)

(***************************************************************************)
(* The inputs of checkModes: modules of at most MaxDefs operator           *)
(* definitions with unique ids, and effect maps over a family of effects.  *)
(***************************************************************************)
PureEffect == ConcreteEffect(NoVars, NoVars, FALSE)
ReadX == ConcreteEffect(VarsX, NoVars, FALSE)
ReadXCopy == ConcreteEffect(VarsXCopy, NoVars, FALSE)

\* Updates state variable x.
UpdateX == ConcreteEffect(NoVars, VarsX, FALSE)
\* A temporal formula over state variable x.
TemporalX == ConcreteEffect(VarsX, NoVars, TRUE)
\* Both an update of x and a temporal formula.
UpdateTemporalX == ConcreteEffect(VarsX, VarsX, TRUE)

ConcreteEffects == {PureEffect, ReadX, UpdateX, TemporalX, UpdateTemporalX}

\* An operator whose result reads x, with a parameter that reads nothing,
\* a parameter that carries the same read, and one that carries an equal read.
ArrowEffects ==
  {ArrowEffect(<<PureEffect>>, ReadX),
   ArrowEffect(<<ReadX>>, ReadX),
   ArrowEffect(<<ReadX>>, ReadXCopy)}

ModuleEffects == ConcreteEffects \cup ArrowEffects

\* Stands for an id the effect map has no entry for.
NoEffect == [kind |-> "missing"]

DefName(i) == "d" \o ToString(i)

TntOpDef(i, q) == [id |-> i, name |-> DefName(i), qualifier |-> q]

EmptyMap == [k \in {} |-> TRUE]

\* Map.prototype.set
MapSet(m, k, v) == [x \in DOMAIN m \cup {k} |-> IF x = k THEN v ELSE m[x]]

NoResult == [tag |-> "none", value |-> EmptyMap]

\* The (module, effects) pairs with n operator definitions.
Inputs(n) ==
  {[tntModule |-> [i \in 1..n |-> TntOpDef(i, quals[i])],
    effects |-> [i \in {j \in 1..n : effs[j] # NoEffect} |-> effs[i]]] :
     quals \in [1..n -> OpQualifier], effs \in [1..n -> ModuleEffects \cup {NoEffect}]}

\* Another module a caller checks between two checks of the same module: one
\* definition, which reads nothing or updates x.
OtherInputs ==
  {[tntModule |-> <<TntOpDef(1, q)>>, effects |-> <<e>>] :
     q \in OpQualifier, e \in {PureEffect, UpdateX}}

VARIABLES
  tntModule,    \* the module: its operator definitions in document order
  effects,      \* the effect map: definition id -> effect
  pc,           \* "idle", "walking", "returned" or "thrown"
  idx,          \* position of the walk in tntModule
  errors,       \* visitor.errors
  suggestions,  \* visitor.suggestions
  currentMode,  \* visitor.modeFinderVisitor.currentMode
  modes,        \* definition id -> the mode exitOpDef inferred for it
  result,       \* what the current call of checkModes returned or threw
  phase,        \* "first" call, a call on an "other" module, the first "again"
  first,        \* the first call's arguments and result, once it is over, and
                \* (between) the result of the call on another module after it
  lattice,      \* arguments and result of a moreGeneralMode call
  fold,         \* a ModeFinderVisitor on its own: nodes to visit, accumulator
  verifier,     \* a call of verify: its position, timers, pings and results
  defaultDefinitions,  \* the exported array defaultDefinitions
  defaultTypes,        \* the exported array defaultTypes
  tables        \* the calls of collectDefinitions: module, table as returned

vars == <<tntModule, effects, pc, idx, errors, suggestions, currentMode, modes,
          result, phase, first, lattice, fold, verifier,
          defaultDefinitions, defaultTypes, tables>>

NoCall == [tntModule |-> <<>>, effects |-> EmptyMap, result |-> NoResult,
           between |-> NoResult]

NoLattice == [m1 |-> "staticval", m2 |-> "staticval", m3 |-> "staticval", out |-> "none"]

\* No ModeFinderVisitor is visiting on its own.
NoFold == [seed |-> "staticval", before |-> "staticval",
           currentMode |-> "staticval", visited |-> <<>>]

\* verify has not been called.
NoVerify == [pc |-> "none"]

\* The identifiers of the literal that defaultDefinitions is initialised with.
defaultIdentifiers ==
  <<"not", "and", "or", "iff", "implies", "exists", "guess", "forall",
    "in", "notin", "union", "contains", "fold", "intersect", "exclude",
    "subseteq", "map", "applyTo", "filter", "powerset", "flatten", "seqs",
    "choose_some", "isFinite", "cardinality", "get", "put", "keys",
    "mapOf", "setOfMaps", "update", "updateAs", "fields", "with", "tuples",
    "append", "concat", "head", "tail", "length", "nth", "indices",
    "replaceAt", "slice", "select", "foldl", "foldr", "to", "always",
    "eventually", "next", "stutter", "nostutter", "enabled", "weakFair",
    "strongFair", "guarantees", "exists_const", "forall_const",
    "choose_const", "Bool", "Int", "Nat", "TRUE", "FALSE">>

NoScope == [defined |-> FALSE, id |-> 0]

\* { kind, identifier } and { kind, identifier, scope }
NameDefinition(kind, identifier) ==
  [kind |-> kind, identifier |-> identifier, scope |-> NoScope]

ScopedDefinition(kind, identifier, id) ==
  [kind |-> kind, identifier |-> identifier, scope |-> [defined |-> TRUE, id |-> id]]

\* The value of defaultDefinitions when the program is loaded.
builtinDefinitions ==
  [i \in DOMAIN defaultIdentifiers |-> NameDefinition("def", defaultIdentifiers[i])]

\* The program is loaded and collectDefinitions has not been called.
NotCollected ==
  /\ defaultDefinitions = builtinDefinitions
  /\ defaultTypes = <<>>
  /\ tables = <<>>

\* No call of checkModes has been made on the input.
Idle(input) ==
  /\ tntModule = input.tntModule
  /\ effects = input.effects
  /\ pc = "idle"
  /\ idx = 0
  /\ errors = EmptyMap
  /\ suggestions = EmptyMap
  /\ currentMode = "staticval"
  /\ modes = EmptyMap
  /\ result = NoResult
  /\ phase = "first"
  /\ first = NoCall

Init ==
  /\ \E n \in 0..MaxDefs : \E input \in Inputs(n) : Idle(input)
  /\ lattice = NoLattice
  /\ fold = NoFold
  /\ verifier = NoVerify
  /\ NotCollected

(***************************************************************************)
(* checkModes and ModeCheckerVisitor.                                      *)
(***************************************************************************)
definitionToString(def) == def.qualifier \o " " \o def.name

\* ModeError with the expected and the found qualifier exchanged.
ModeErrorSwapped(def, mode) ==
  [location |-> "Checking modes for " \o definitionToString(def),
   message |-> "Expected " \o def.qualifier \o " mode, found: " \o mode,
   children |-> <<>>]

ModeError(def, mode) ==
  [location |-> "Checking modes for " \o definitionToString(def),
   message |-> "Expected " \o mode \o " mode, found: " \o def.qualifier,
   children |-> <<>>]

\* errorsAfter without the early return on equal modes.
errorsAfterNoAccept(errs, def, mode) ==
  IF moreGeneralMode(mode, def.qualifier) = mode
  THEN MapSet(errs, def.id, ModeError(def, mode))
  ELSE errs

\* The error map after exitOpDef has compared mode with the declared qualifier.
errorsAfter(errs, def, mode) ==
  IF mode = def.qualifier
  THEN errs
  ELSE IF moreGeneralMode(mode, def.qualifier) = mode
  THEN MapSet(errs, def.id, ModeError(def, mode))
  ELSE errs

\* suggestionsAfter proposing the declared qualifier instead of the mode.
suggestionsAfterDeclared(suggs, def, mode) ==
  IF mode = def.qualifier
  THEN suggs
  ELSE IF moreGeneralMode(mode, def.qualifier) = mode
  THEN suggs
  ELSE IF moreGeneralMode(mode, def.qualifier) = def.qualifier
  THEN MapSet(suggs, def.id, def.qualifier)
  ELSE suggs

\* The suggestion map after exitOpDef has compared mode with the declared qualifier.
suggestionsAfter(suggs, def, mode) ==
  IF mode = def.qualifier
  THEN suggs
  ELSE IF moreGeneralMode(mode, def.qualifier) = mode
  THEN suggs
  ELSE IF moreGeneralMode(mode, def.qualifier) = def.qualifier
  THEN MapSet(suggs, def.id, mode)
  ELSE suggs

\* checkModesEnter with an error map that outlives the visitor.
checkModesEnterSharedErrors ==
  /\ pc = "idle"
  /\ pc' = "walking"
  /\ idx' = 1
  /\ suggestions' = EmptyMap
  /\ currentMode' = "staticval"
  /\ modes' = EmptyMap
  /\ UNCHANGED <<tntModule, effects, errors, result, phase, first, lattice, fold, verifier,
                 defaultDefinitions, defaultTypes, tables>>

\* new ModeCheckerVisitor(effects), and the start of walkModule.
checkModesEnter ==
  /\ pc = "idle"
  /\ pc' = "walking"
  /\ idx' = 1
  /\ errors' = EmptyMap
  /\ suggestions' = EmptyMap
  /\ currentMode' = "staticval"
  /\ modes' = EmptyMap
  /\ UNCHANGED <<tntModule, effects, result, phase, first, lattice, fold, verifier,
                 defaultDefinitions, defaultTypes, tables>>

\* exitOpDefThrow passing over the definition instead of throwing.
exitOpDefSkip ==
  /\ pc = "walking"
  /\ idx <= Len(tntModule)
  /\ tntModule[idx].id \notin DOMAIN effects
  /\ idx' = idx + 1
  /\ UNCHANGED <<tntModule, effects, pc, result, errors, suggestions, currentMode,
                 modes, phase, first, lattice, fold, verifier,
                 defaultDefinitions, defaultTypes, tables>>

\* exitOpDef on a definition the effect map has no entry for: it throws, and
\* the exception leaves walkModule and checkModes.
exitOpDefThrow ==
  /\ pc = "walking"
  /\ idx <= Len(tntModule)
  /\ tntModule[idx].id \notin DOMAIN effects
  /\ pc' = "thrown"
  /\ result' = [tag |-> "throw",
                value |-> "effect not found for definition " \o tntModule[idx].name]
  /\ UNCHANGED <<tntModule, effects, idx, errors, suggestions, currentMode, modes,
                 phase, first, lattice, fold, verifier,
                 defaultDefinitions, defaultTypes, tables>>

\* exitOpDefCheck ending the walk at the first error it records.
exitOpDefCheckStopOnError ==
  /\ pc = "walking"
  /\ idx <= Len(tntModule)
  /\ tntModule[idx].id \in DOMAIN effects
  /\ LET def == tntModule[idx]
         mode == walkEffect(currentMode, effects[def.id])
     IN IF mode = TypeError
        THEN /\ pc' = "thrown"
             /\ result' = [tag |-> "throw", value |-> TypeError]
             /\ UNCHANGED <<idx, errors, suggestions, currentMode, modes>>
        ELSE /\ currentMode' = "staticval"
             /\ modes' = MapSet(modes, def.id, mode)
             /\ errors' = errorsAfter(errors, def, mode)
             /\ suggestions' = suggestionsAfter(suggestions, def, mode)
             /\ idx' = IF errors' # errors THEN Len(tntModule) + 1 ELSE idx + 1
             /\ UNCHANGED <<pc, result>>
  /\ UNCHANGED <<tntModule, effects, phase, first, lattice, fold, verifier,
                 defaultDefinitions, defaultTypes, tables>>

\* exitOpDefCheck leaving the accumulator as the fold left it.
exitOpDefCheckNoReset ==
  /\ pc = "walking"
  /\ idx <= Len(tntModule)
  /\ tntModule[idx].id \in DOMAIN effects
  /\ LET def == tntModule[idx]
         mode == walkEffect(currentMode, effects[def.id])
     IN IF mode = TypeError
        THEN /\ pc' = "thrown"
             /\ result' = [tag |-> "throw", value |-> TypeError]
             /\ UNCHANGED <<idx, errors, suggestions, currentMode, modes>>
        ELSE /\ currentMode' = mode
             /\ modes' = MapSet(modes, def.id, mode)
             /\ errors' = errorsAfter(errors, def, mode)
             /\ suggestions' = suggestionsAfter(suggestions, def, mode)
             /\ idx' = idx + 1
             /\ UNCHANGED <<pc, result>>
  /\ UNCHANGED <<tntModule, effects, phase, first, lattice, fold, verifier,
                 defaultDefinitions, defaultTypes, tables>>

\* exitOpDef on a definition that has an effect.
exitOpDefCheck ==
  /\ pc = "walking"
  /\ idx <= Len(tntModule)
  /\ tntModule[idx].id \in DOMAIN effects
  /\ LET def == tntModule[idx]
         mode == walkEffect(currentMode, effects[def.id])
     IN IF mode = TypeError
        THEN /\ pc' = "thrown"
             /\ result' = [tag |-> "throw", value |-> TypeError]
             /\ UNCHANGED <<idx, errors, suggestions, currentMode, modes>>
        ELSE /\ currentMode' = "staticval"
             /\ modes' = MapSet(modes, def.id, mode)
             /\ errors' = errorsAfter(errors, def, mode)
             /\ suggestions' = suggestionsAfter(suggestions, def, mode)
             /\ idx' = idx + 1
             /\ UNCHANGED <<pc, result>>
  /\ UNCHANGED <<tntModule, effects, phase, first, lattice, fold, verifier,
                 defaultDefinitions, defaultTypes, tables>>

\* walkModule calls exitOpDef on the next operator definition.
exitOpDef ==
  \/ exitOpDefThrow
  \/ exitOpDefCheck

\* checkModesReturn without the test of the error map's size.
checkModesReturnAlwaysLeft ==
  /\ pc = "walking"
  /\ idx > Len(tntModule)
  /\ pc' = "returned"
  /\ result' = [tag |-> "left", value |-> errors]
  /\ UNCHANGED <<tntModule, effects, idx, errors, suggestions, currentMode, modes,
                 phase, first, lattice, fold, verifier,
                 defaultDefinitions, defaultTypes, tables>>

\* walkModule is over: checkModes returns left(errors) or right(suggestions).
checkModesReturn ==
  /\ pc = "walking"
  /\ idx > Len(tntModule)
  /\ pc' = "returned"
  /\ result' = IF Cardinality(DOMAIN errors) > 0
               THEN [tag |-> "left", value |-> errors]
               ELSE [tag |-> "right", value |-> suggestions]
  /\ UNCHANGED <<tntModule, effects, idx, errors, suggestions, currentMode, modes,
                 phase, first, lattice, fold, verifier,
                 defaultDefinitions, defaultTypes, tables>>

Next ==
  \/ checkModesEnter
  \/ exitOpDef
  \/ checkModesReturn

Spec == Init /\ [][Next]_vars

(***************************************************************************)
(* Successive calls: after the first call the caller may check another     *)
(* module, and then checks the first module and effect map again.          *)
(***************************************************************************)
MaxAgainDefs == 1

InitAgain ==
  /\ \E n \in 0..MaxAgainDefs : \E input \in Inputs(n) : Idle(input)
  /\ lattice = NoLattice
  /\ fold = NoFold
  /\ verifier = NoVerify
  /\ NotCollected

checkOther ==
  /\ pc \in {"returned", "thrown"}
  /\ phase = "first"
  /\ phase' = "other"
  /\ first' = [tntModule |-> tntModule, effects |-> effects, result |-> result,
               between |-> NoResult]
  /\ \E input \in OtherInputs :
       /\ tntModule' = input.tntModule
       /\ effects' = input.effects
  /\ pc' = "idle"
  /\ result' = NoResult
  /\ UNCHANGED <<idx, errors, suggestions, currentMode, modes, lattice, fold, verifier,
                 defaultDefinitions, defaultTypes, tables>>

checkModesAgain ==
  /\ pc \in {"returned", "thrown"}
  /\ phase \in {"first", "other"}
  /\ phase' = "again"
  /\ first' = IF phase = "first"
              THEN [tntModule |-> tntModule, effects |-> effects, result |-> result,
                    between |-> NoResult]
              ELSE [first EXCEPT !.between = result]
  /\ tntModule' = first'.tntModule
  /\ effects' = first'.effects
  /\ pc' = "idle"
  /\ result' = NoResult
  /\ UNCHANGED <<idx, errors, suggestions, currentMode, modes, lattice, fold, verifier,
                 defaultDefinitions, defaultTypes, tables>>

NextAgain ==
  \/ Next
  \/ checkOther
  \/ checkModesAgain

SpecAgain == InitAgain /\ [][NextAgain]_vars

(***************************************************************************)
(* The mode lattice on its own: moreGeneralMode on any two qualifiers.     *)
(***************************************************************************)
InitLattice ==
  /\ Idle([tntModule |-> <<>>, effects |-> EmptyMap])
  /\ fold = NoFold
  /\ verifier = NoVerify
  /\ NotCollected
  /\ \E a \in OpQualifier, b \in OpQualifier, c \in OpQualifier :
       lattice = [m1 |-> a, m2 |-> b, m3 |-> c, out |-> "none"]

callMoreGeneralMode ==
  /\ lattice.out = "none"
  /\ lattice' = [lattice EXCEPT !.out = moreGeneralMode(lattice.m1, lattice.m2)]
  /\ UNCHANGED <<tntModule, effects, pc, idx, errors, suggestions, currentMode,
                 modes, result, phase, first, fold, verifier,
                 defaultDefinitions, defaultTypes, tables>>

NextLattice == callMoreGeneralMode

SpecLattice == InitLattice /\ [][NextLattice]_vars

(***************************************************************************)
(* Properties of checkModes.                                               *)
(***************************************************************************)
\* The order of the qualifiers, weakest first.
QualifierOrder == <<"staticval", "staticdef", "val", "def", "action", "temporal">>

Position(q) == CHOOSE i \in DOMAIN QualifierOrder : QualifierOrder[i] = q

StrictlyMoreGeneral(a, b) == Position(a) > Position(b)

Later(a, b) == IF Position(a) >= Position(b) THEN a ELSE b

Declared(i) == tntModule[i].qualifier

\* C1: checkModes returns left carrying the error map if and only if some
\* definition recorded a mode error, and otherwise right carrying the
\* suggestion map, which is empty for a module without definitions; a left
\* result never carries an empty map.
C1_LeftIffErrors ==
  pc = "returned" =>
    /\ result.tag \in {"left", "right"}
    /\ (result.tag = "left") <=> (\E i \in DOMAIN tntModule : i \in DOMAIN errors)
    /\ (result.tag = "left") => (result.value = errors /\ DOMAIN result.value # {})
    /\ (result.tag = "right") => (result.value = suggestions)
    /\ (Len(tntModule) = 0) => (result = [tag |-> "right", value |-> EmptyMap])

\* checkModes returned the error map although suggestions were recorded too.
C1_Witness ==
  /\ pc = "returned"
  /\ result.tag = "left"
  /\ DOMAIN suggestions # {}

\* C2: a definition whose inferred mode differs from the declared qualifier
\* and is the more general of the two has an error under its id, with
\* message 'Expected <inferred> mode, found: <declared>' and no children;
\* an update of a state variable declared staticval gives
\* 'Expected action mode, found: staticval'.
C2_TooWeakIsError ==
  \A i \in DOMAIN modes :
    /\ (modes[i] # Declared(i) /\ moreGeneralMode(modes[i], Declared(i)) = modes[i])
         => /\ i \in DOMAIN errors
            /\ errors[i].message = "Expected " \o modes[i] \o " mode, found: " \o Declared(i)
            /\ errors[i].children = <<>>
    /\ (effects[i] = UpdateX /\ Declared(i) = "staticval")
         => /\ i \in DOMAIN errors
            /\ errors[i].message = "Expected action mode, found: staticval"

\* An update of x declared staticval has been checked.
C2_Witness ==
  \E i \in DOMAIN modes :
    /\ effects[i] = UpdateX
    /\ Declared(i) = "staticval"
    /\ i \in DOMAIN errors

\* C3: a definition whose declared qualifier is strictly more general than
\* its inferred mode has the suggestion id -> inferred mode and no error; a
\* module whose mismatches are all of this kind is checked with success.
C3_TooStrongIsSuggestion ==
  /\ \A i \in DOMAIN modes :
       StrictlyMoreGeneral(Declared(i), modes[i])
         => /\ i \in DOMAIN suggestions
            /\ suggestions[i] = modes[i]
            /\ i \notin DOMAIN errors
  /\ (/\ pc = "returned"
      /\ \A i \in DOMAIN tntModule :
           modes[i] = Declared(i) \/ StrictlyMoreGeneral(Declared(i), modes[i]))
       => result.tag = "right"

\* checkModes succeeded on a module with a definition declared too strong.
C3_Witness ==
  /\ pc = "returned"
  /\ result.tag = "right"
  /\ \E i \in DOMAIN modes : StrictlyMoreGeneral(Declared(i), modes[i])

\* C4: every checked definition has exactly one outcome: no output iff the
\* inferred mode is the declared one, an error iff the inferred mode is
\* strictly more general, a suggestion iff the declared one is; no id is ever
\* in both maps; a read of one state variable declared val gives neither.
C4_ExactlyOneOutcome ==
  /\ DOMAIN errors \cap DOMAIN suggestions = {}
  /\ DOMAIN errors \cup DOMAIN suggestions \subseteq DOMAIN modes
  /\ \A i \in DOMAIN modes :
       /\ (i \notin DOMAIN errors /\ i \notin DOMAIN suggestions) <=> (modes[i] = Declared(i))
       /\ (i \in DOMAIN errors) <=> StrictlyMoreGeneral(modes[i], Declared(i))
       /\ (i \in DOMAIN suggestions) <=> StrictlyMoreGeneral(Declared(i), modes[i])
       /\ (effects[i] = ReadX /\ Declared(i) = "val")
            => (i \notin DOMAIN errors /\ i \notin DOMAIN suggestions)

\* A read of x declared val was accepted in a module with an error elsewhere.
C4_Witness ==
  \E i \in DOMAIN modes, j \in DOMAIN modes :
    /\ effects[i] = ReadX
    /\ Declared(i) = "val"
    /\ i \notin DOMAIN errors \cup DOMAIN suggestions
    /\ j \in DOMAIN errors

\* The mode of a definition's effect folded on its own.
OwnMode(i) == walkEffect("staticval", effects[i])

TooWeak(i) == StrictlyMoreGeneral(OwnMode(i), Declared(i))

\* C5: when every definition has an effect, no error stops the walk: every
\* definition is checked, and the returned error map has an entry for every
\* definition declared too weak, wherever it stands in the module.
C5_ErrorsDoNotStopTheWalk ==
  (\A i \in DOMAIN tntModule : i \in DOMAIN effects) =>
    /\ pc # "thrown"
    /\ pc = "walking" => DOMAIN modes = 1..(idx - 1)
    /\ pc = "returned" =>
         /\ DOMAIN modes = DOMAIN tntModule
         /\ \A i \in DOMAIN tntModule :
              TooWeak(i) => (result.tag = "left" /\ i \in DOMAIN result.value)

\* checkModes returned errors for a first and for a later definition.
C5_Witness ==
  /\ pc = "returned"
  /\ result.tag = "left"
  /\ \E i \in DOMAIN tntModule, j \in DOMAIN tntModule :
       i < j /\ TooWeak(i) /\ TooWeak(j) /\ {i, j} \subseteq DOMAIN result.value

\* The first definitions without an entry in the effect map.
FirstMissing ==
  {m \in DOMAIN tntModule :
     m \notin DOMAIN effects /\ \A j \in 1..(m - 1) : j \in DOMAIN effects}

\* C6: when a definition has no entry in the effect map, checkModes throws
\* an error naming the first such definition: it never returns a map, no
\* later definition is checked, and what was recorded before is not returned.
C6_MissingEffectAborts ==
  \A m \in FirstMissing :
    /\ pc # "returned"
    /\ result.tag \in {"none", "throw"}
    /\ idx <= m
    /\ DOMAIN modes \subseteq 1..(m - 1)
    /\ pc = "thrown" =>
         /\ idx = m
         /\ result = [tag |-> "throw",
                      value |-> "effect not found for definition " \o tntModule[m].name]

\* checkModes threw after an error had been recorded for an earlier definition.
C6_Witness ==
  /\ pc = "thrown"
  /\ result.tag = "throw"
  /\ DOMAIN errors # {}

\* C7: a second call of checkModes on the same module and effect map gives
\* the result of the first, whether or not another module was checked in
\* between.
C7_SameResultAgain ==
  (phase = "again" /\ pc \in {"returned", "thrown"}) =>
    /\ result.tag = first.result.tag
    /\ result.value = first.result.value

\* The second call succeeded after another module had been checked with errors.
C7_Witness ==
  /\ phase = "again"
  /\ pc = "returned"
  /\ result.tag = "right"
  /\ first.between.tag = "left"

\* C8: moreGeneralMode returns the argument that stands later in the order
\* staticval < staticdef < val < def < action < temporal; it is idempotent,
\* commutative and associative, with staticval as identity and temporal as
\* absorbing element.
C8_MoreGeneralIsLatticeJoin ==
  LET a == lattice.m1
      b == lattice.m2
      c == lattice.m3
  IN /\ lattice.out # "none" => lattice.out = Later(a, b)
     /\ moreGeneralMode(a, b) = Later(a, b)
     /\ moreGeneralMode(a, a) = a
     /\ moreGeneralMode(a, b) = moreGeneralMode(b, a)
     /\ moreGeneralMode(moreGeneralMode(a, b), c) = moreGeneralMode(a, moreGeneralMode(b, c))
     /\ moreGeneralMode("staticval", a) = a /\ moreGeneralMode(a, "staticval") = a
     /\ moreGeneralMode("temporal", a) = "temporal" /\ moreGeneralMode(a, "temporal") = "temporal"

\* moreGeneralMode was called on def and val and returned def.
C8_Witness ==
  /\ lattice.m1 = "def"
  /\ lattice.m2 = "val"
  /\ lattice.out = "def"

\* The state variables read by the concrete parameters of an arrow effect.
ParamReadNames(effect) ==
  UNION {VarNames(effect.params[i].read) :
           i \in {j \in DOMAIN effect.params : effect.params[j].kind = "concrete"}}

\* An arrow effect whose parameters each classify as staticval and whose
\* result reads a variable no parameter reads.
ResultReadsOutsideParams(effect) ==
  /\ effect.kind = "arrow"
  /\ \A i \in DOMAIN effect.params :
       /\ effect.params[i].kind = "concrete"
       /\ exitConcrete("staticval", effect.params[i]) = "staticval"
  /\ effect.result.kind = "concrete"
  /\ VarNames(effect.result.read) \ ParamReadNames(effect) # {}

\* C9: the fold of an arrow effect whose result reads a variable that no
\* parameter reads, every parameter classifying as staticval, gives def.
C9_ResultReadOutsideParamsIsDef ==
  \A i \in DOMAIN modes :
    ResultReadsOutsideParams(effects[i]) => modes[i] = "def"

\* An arrow effect whose result reads only variables its parameters read.
ResultReadsWithinParams(effect) ==
  /\ effect.kind = "arrow"
  /\ effect.result.kind = "concrete"
  /\ ~ isAction(effect.result)
  /\ ~ isTemporal(effect.result)
  /\ VarNames(effect.result.read) \subseteq ParamReadNames(effect)

\* C10: a definition declared def whose effect reads only variables that
\* reach it through its parameters makes checkModes succeed with the
\* suggestion id -> staticdef.
C10_DefReadingParamsSuggestsStaticdef ==
  pc = "returned" =>
    \A i \in DOMAIN tntModule :
      (/\ Declared(i) = "def"
       /\ ResultReadsWithinParams(effects[i])
       /\ \A j \in DOMAIN tntModule \ {i} : ~ TooWeak(j))
        => /\ result.tag = "right"
           /\ i \in DOMAIN result.value
           /\ result.value[i] = "staticdef"

\* C14: whenever exitOpDef starts to fold a definition's effect the
\* accumulator is staticval, so the mode inferred for a definition is the
\* mode of its own effect, whatever was checked before it.
C14_AccumulatorReseeded ==
  /\ pc = "walking" => currentMode = "staticval"
  /\ \A i \in DOMAIN modes : modes[i] = OwnMode(i)

\* The walk stands before a definition that reads nothing, after one whose
\* effect folded to action.
C14_Witness ==
  /\ pc = "walking"
  /\ idx \in DOMAIN tntModule
  /\ idx \in DOMAIN effects
  /\ effects[idx] = PureEffect
  /\ \E i \in DOMAIN modes : i < idx /\ modes[i] = "action"

(***************************************************************************)
(* ModeFinderVisitor on its own: exitConcrete and exitArrow are called on  *)
(* effect nodes one after the other.  currentMode is a public field of     *)
(* type OpQualifier: a sequence of visits may start from any qualifier     *)
(* (seed); exitOpDef starts it from staticval.                             *)
(***************************************************************************)
\* The largest number of visits in a sequence.
MaxVisits == 2

ReadY == ConcreteEffect(VarsY, NoVars, FALSE)
ReadUnionXY == ConcreteEffect(UnionXY, NoVars, FALSE)

FoldConcretes ==
  {ConcreteEffect(r, u, t) : r \in {NoVars, VarsX}, u \in {NoVars, VarsX}, t \in BOOLEAN}

\* An operator that takes no state and reads x.
NestedArrow == ArrowEffect(<<PureEffect>>, ReadX)

FoldArrows ==
  {ArrowEffect(ps, r) :
     ps \in {<<PureEffect>>, <<ReadX>>, <<ReadX, ReadY>>, <<ReadUnionXY>>, <<NestedArrow>>},
     r \in {PureEffect, ReadX, ReadXCopy, ReadUnionXY, NestedArrow}}

InitFold ==
  /\ Idle([tntModule |-> <<>>, effects |-> EmptyMap])
  /\ lattice = NoLattice
  /\ verifier = NoVerify
  /\ NotCollected
  /\ \E seed \in OpQualifier :
       fold = [seed |-> seed, before |-> seed, currentMode |-> seed, visited |-> <<>>]

\* One call of a visitor method on an effect node.
Visit(effect, after) ==
  /\ Len(fold.visited) < MaxVisits
  /\ fold.currentMode # TypeError
  /\ fold' = [fold EXCEPT !.before = fold.currentMode,
                          !.currentMode = after,
                          !.visited = Append(fold.visited, effect)]
  /\ UNCHANGED <<tntModule, effects, pc, idx, errors, suggestions, currentMode, modes,
                 result, phase, first, lattice, verifier,
                 defaultDefinitions, defaultTypes, tables>>

visitConcrete ==
  \E effect \in FoldConcretes : Visit(effect, exitConcrete(fold.currentMode, effect))

visitArrow ==
  \E effect \in FoldArrows : Visit(effect, exitArrow(fold.currentMode, effect))

NextFold ==
  \/ visitConcrete
  \/ visitArrow

SpecFold == InitFold /\ [][NextFold]_vars

\* The node visited last.
LastVisited == fold.visited[Len(fold.visited)]

\* The classification of a concrete node: update, else temporal, else state
\* read, else staticval.
Classification(effect) ==
  CASE VarNames(effect.update) # {} -> "action"
    [] VarNames(effect.update) = {} /\ effect.temporal -> "temporal"
    [] VarNames(effect.update) = {} /\ ~ effect.temporal /\ VarNames(effect.read) # {} -> "val"
    [] OTHER -> "staticval"

\* The latest qualifier of the order among a set of qualifiers and staticval.
Latest(qs) ==
  CHOOSE q \in qs \cup {"staticval"} :
    \A r \in qs \cup {"staticval"} : Position(q) >= Position(r)

\* C15: a visit of a concrete node sets the accumulator to the more general
\* of the accumulator and the node's classification, a node that is both an
\* update and temporal classifying as action; after visits of concrete nodes
\* only, from staticval, the accumulator is the latest of their
\* classifications, whatever the order of the visits.
C15_ConcreteVisitJoinsClassification ==
  /\ (fold.visited # <<>> /\ LastVisited.kind = "concrete")
       => fold.currentMode = Later(fold.before, Classification(LastVisited))
  /\ (fold.visited # <<>> /\ LastVisited = UpdateTemporalX /\ fold.before = "staticval")
       => fold.currentMode = "action"
  /\ (fold.seed = "staticval"
      /\ \A i \in DOMAIN fold.visited : fold.visited[i].kind = "concrete")
       => fold.currentMode =
            Latest({Classification(fold.visited[i]) : i \in DOMAIN fold.visited})

\* A temporal node was visited before a node that is an update and temporal.
C15_Witness ==
  /\ fold.seed = "staticval"
  /\ fold.visited = <<TemporalX, UpdateTemporalX>>
  /\ fold.currentMode = "temporal"

\* C16: a visit of an arrow node leaves an accumulator of staticval, val,
\* action or temporal as it is.
C16_ArrowVisitKeepsAccumulator ==
  (/\ fold.visited # <<>>
   /\ LastVisited.kind = "arrow"
   /\ fold.before \in {"staticval", "val", "action", "temporal"})
    => fold.currentMode = fold.before

\* An arrow whose result reads a variable its parameter does not read was
\* visited with the accumulator at val.
C16_Witness ==
  /\ fold.visited # <<>>
  /\ LastVisited = ArrowEffect(<<PureEffect>>, ReadX)
  /\ fold.before = "val"
  /\ fold.currentMode = "val"

\* The Variables objects the parameters of an arrow read, unions expanded
\* into their members.
ParamReadObjects(effect) ==
  UNION {IF effect.params[i].read.kind = "union"
         THEN {effect.params[i].read.variables[k].ref :
                 k \in DOMAIN effect.params[i].read.variables}
         ELSE {effect.params[i].read.ref} :
           i \in {j \in DOMAIN effect.params : effect.params[j].kind = "concrete"}}

\* The result's read is a union with a member no parameter reads, or a
\* single object no parameter reads.
ResultReadAbsent(effect) ==
  /\ effect.result.kind = "concrete"
  /\ IF effect.result.read.kind = "union"
     THEN \E k \in DOMAIN effect.result.read.variables :
            effect.result.read.variables[k].ref \notin ParamReadObjects(effect)
     ELSE effect.result.read.ref \notin ParamReadObjects(effect)

\* C17: a visit of an arrow node with the accumulator at staticdef or def
\* sets it to def when the result's read is absent from the parameters'
\* reads and to staticdef otherwise; a union all of whose members the
\* parameters read gives staticdef.
C17_ArrowVisitPromotesExactly ==
  (/\ fold.visited # <<>>
   /\ LastVisited.kind = "arrow"
   /\ fold.before \in {"staticdef", "def"})
    => fold.currentMode = IF ResultReadAbsent(LastVisited) THEN "def" ELSE "staticdef"

\* C19: from staticval, after any visits, the accumulator is staticval, val,
\* action or temporal, and no visit has moved it to an earlier qualifier.
C19_AccumulatorStaysOutsideDef ==
  fold.seed = "staticval" =>
    /\ fold.currentMode \in {"staticval", "val", "action", "temporal"}
    /\ fold.before \in {"staticval", "val", "action", "temporal"}
    /\ Position(fold.currentMode) >= Position(fold.before)

\* From staticval, an update was visited and then an arrow whose result
\* reads a variable its parameter does not read.
C19_Witness ==
  /\ fold.seed = "staticval"
  /\ fold.visited = <<UpdateX, ArrowEffect(<<PureEffect>>, ReadX)>>
  /\ fold.currentMode = "action"

(***************************************************************************)
(* verify (quintVerifier): locate the Apalache distribution, load the gRPC *)
(* client, connect to the server and run the CHECK command.                *)
(*                                                                         *)
(* Promise continuations run as microtasks, before any timer or response:  *)
(* an action is one task of the event loop with the continuations it       *)
(* releases.  Time is counted in ms and advances by the retry interval.    *)
(***************************************************************************)
\* The latest time of the clock, in retry intervals.
MaxTicks == 12

\* connect: const delayMS = 5000
delayMS == 5000

\* tryToConnect: await setTimeout(500)
retryMS == 500

\* The value of APALACHE_DIST when it is set, an absolute path.
DistPath == "/opt/apalache"

Unset == "undefined"

\* What verify finds on the machine.
Environments ==
  [APALACHE_DIST : {Unset, DistPath}, distExists : BOOLEAN, jarAndExeExist : BOOLEAN,
   jarUtilityIsInstalled : BOOLEAN, protoIsFileExtracted : BOOLEAN]

NoTraces == [defined |-> FALSE, itf |-> <<>>]

\* left({ explanation, errors, traces })
err(explanation) ==
  [tag |-> "left", explanation |-> explanation, errors |-> <<>>, traces |-> NoTraces]

\* right(void 0)
RightVoid == [tag |-> "right", explanation |-> "", errors |-> <<>>, traces |-> NoTraces]

\* An exception that leaves verify: its promise is rejected.
Rejected(message) ==
  [tag |-> "rejected", explanation |-> message, errors |-> <<>>, traces |-> NoTraces]

NoOutcome == [tag |-> "none", explanation |-> "", errors |-> <<>>, traces |-> NoTraces]

\* findApalacheDistribution.  With APALACHE_DIST unset, path.join receives
\* undefined and throws.
findApalacheDistribution(env) ==
  IF env.APALACHE_DIST = Unset
  THEN Rejected("TypeError: The \"path\" argument must be of type string")
  ELSE IF ~ env.distExists
  THEN err("Specified APALACHE_DIST " \o env.APALACHE_DIST \o " does not exist")
  ELSE IF env.jarAndExeExist
  THEN RightVoid
  ELSE err("Apalache distribution is corrupted. Cannot find "
           \o env.APALACHE_DIST \o "/lib/apalache.jar" \o " or "
           \o env.APALACHE_DIST \o "/bin/apalache-mc" \o ".")

loadGrpcClient(env) ==
  IF ~ env.jarUtilityIsInstalled
  THEN err("The jar utility must be installed")
  ELSE IF ~ env.protoIsFileExtracted
  THEN err("Apalache distribution is corrupted. Could not extract proto file from apalache.jar.")
  ELSE RightVoid

\* The error of the timer that connect races against tryToConnect.
ConnectTimeout ==
  err("Failed to obtain a connection to Apalache after "
      \o ToString(delayMS \div 1000) \o " seconds.")

\* The data of a failure response: a JSON text that parses to an object, or
\* one that does not parse.
Payload(json, text, msg, pass, checking, traces) ==
  [json |-> json, text |-> text, msg |-> msg, pass_name |-> pass,
   error_data |-> [checking_result |-> checking, counterexamples |-> traces]]

Malformed == Payload("malformed", "<html>", "", "", "", <<>>)

Response(outcome, errorType, data) ==
  [result |-> outcome, errorType |-> errorType, data |-> data]

NoResponse == Response("none", "", Malformed)

\* The responses of the server to the CHECK command.
Responses ==
  {Response("success", "", Malformed)}
  \cup {Response("failure", "UNEXPECTED", d) :
          d \in {Malformed, Payload("object", "{msg}", "boom", "", "", <<>>)}}
  \cup {Response("failure", "PASS_FAILURE", d) :
          d \in {Malformed} \cup
                {Payload("object", "{pass_name,error_data}", "", p, c, <<"trace">>) :
                   p \in {"BoundedChecker", "TypeChecker"},
                   c \in {"Error", "Deadlock", "RuntimeError"}}}
  \cup {Response("failure", "FAILURE", Malformed)}

\* handleVerificationFailure with the two explanations exchanged.
handleVerificationFailureSwapped(failure) ==
  IF failure.pass_name = "BoundedChecker"
  THEN IF failure.error_data.checking_result = "Error"
       THEN [tag |-> "left", explanation |-> "reached a deadlock", errors |-> <<>>,
             traces |-> [defined |-> TRUE, itf |-> failure.error_data.counterexamples]]
       ELSE IF failure.error_data.checking_result = "Deadlock"
       THEN [tag |-> "left", explanation |-> "found a counterexample", errors |-> <<>>,
             traces |-> [defined |-> TRUE, itf |-> failure.error_data.counterexamples]]
       ELSE Rejected("internal error: unhandled verification error "
                     \o failure.error_data.checking_result)
  ELSE Rejected("internal error: unhandled verification error at pass "
                \o failure.pass_name)

\* handleVerificationFailure: the VerifyError, or the exception it throws.
handleVerificationFailure(failure) ==
  IF failure.pass_name = "BoundedChecker"
  THEN IF failure.error_data.checking_result = "Error"
       THEN [tag |-> "left", explanation |-> "found a counterexample", errors |-> <<>>,
             traces |-> [defined |-> TRUE, itf |-> failure.error_data.counterexamples]]
       ELSE IF failure.error_data.checking_result = "Deadlock"
       THEN [tag |-> "left", explanation |-> "reached a deadlock", errors |-> <<>>,
             traces |-> [defined |-> TRUE, itf |-> failure.error_data.counterexamples]]
       ELSE Rejected("internal error: unhandled verification error "
                     \o failure.error_data.checking_result)
  ELSE Rejected("internal error: unhandled verification error at pass "
                \o failure.pass_name)

\* JSON.parse throws on a text that is no JSON.
SyntaxError == Rejected("SyntaxError: Unexpected token in JSON")

\* apalache.check, from the server's response on.
check(response) ==
  IF response.result = "success"
  THEN RightVoid
  ELSE IF response.errorType = "UNEXPECTED"
  THEN IF response.data.json = "malformed" THEN SyntaxError
       ELSE err(response.data.msg)
  ELSE IF response.errorType = "PASS_FAILURE"
  THEN IF response.data.json = "malformed" THEN SyntaxError
       ELSE handleVerificationFailure(response.data)
  ELSE err(response.errorType \o ": " \o response.data.text)

InitVerify ==
  /\ Idle([tntModule |-> <<>>, effects |-> EmptyMap])
  /\ lattice = NoLattice
  /\ fold = NoFold
  /\ NotCollected
  /\ \E env \in Environments :
       verifier = [pc |-> "start", env |-> env, now |-> 0,
                   timer |-> "unset", deadline |-> 0,
                   ping |-> "idle", retryAt |-> 0, pings |-> 0, pong |-> "none",
                   connected |-> "pending", checkSent |-> FALSE,
                   response |-> NoResponse, outcome |-> NoOutcome]

verifyFrame ==
  UNCHANGED <<tntModule, effects, pc, idx, errors, suggestions, currentMode, modes,
              result, phase, first, lattice, fold,
              defaultDefinitions, defaultTypes, tables>>

\* verify up to its first await: findApalacheDistribution, loadGrpcClient, and
\* connect, which sends the first ping and starts the timer of delayMS.
verifyStart ==
  /\ verifier.pc = "start"
  /\ LET dist == findApalacheDistribution(verifier.env)
         client == loadGrpcClient(verifier.env)
     IN IF dist.tag # "right"
        THEN verifier' = [verifier EXCEPT !.pc = "done", !.outcome = dist]
        ELSE IF client.tag # "right"
        THEN verifier' = [verifier EXCEPT !.pc = "done", !.outcome = client]
        ELSE verifier' = [verifier EXCEPT !.pc = "connecting",
                                          !.ping = "inflight",
                                          !.pings = 1,
                                          !.timer = "armed",
                                          !.deadline = verifier.now + delayMS]
  /\ verifyFrame

\* The ping is answered with an error: tryToConnect waits retryMS.
pingFails ==
  /\ verifier.ping = "inflight"
  /\ verifier' = [verifier EXCEPT !.ping = "waiting",
                                  !.retryAt = verifier.now + retryMS]
  /\ verifyFrame

\* The wait of tryToConnect is over: it calls itself and pings again.
retryPing ==
  /\ verifier.ping = "waiting"
  /\ verifier.now >= verifier.retryAt
  /\ verifier' = [verifier EXCEPT !.ping = "inflight", !.pings = verifier.pings + 1]
  /\ verifyFrame

\* The ping is answered: tryToConnect resolves.  When the race is still open
\* connect returns the connection and verify sends the CHECK command.
pingSucceeds ==
  /\ verifier.ping = "inflight"
  /\ IF verifier.connected = "pending"
     THEN verifier' = [verifier EXCEPT !.ping = "resolved",
                                       !.pong = "in time",
                                       !.connected = "connection",
                                       !.pc = "checking",
                                       !.checkSent = TRUE]
     ELSE verifier' = [verifier EXCEPT !.ping = "resolved", !.pong = "late"]
  /\ verifyFrame

\* timeoutFires of a connect that awaits tryToConnect alone.
timeoutFiresUnraced ==
  /\ verifier.timer = "armed"
  /\ verifier.now >= verifier.deadline
  /\ verifier' = [verifier EXCEPT !.timer = "fired"]
  /\ verifyFrame

\* The timer of delayMS fires.  When the race is still open connect returns
\* its error, and so does verify.
timeoutFires ==
  /\ verifier.timer = "armed"
  /\ verifier.now >= verifier.deadline
  /\ IF verifier.connected = "pending"
     THEN verifier' = [verifier EXCEPT !.timer = "fired",
                                       !.connected = "timeout",
                                       !.pc = "done",
                                       !.outcome = ConnectTimeout]
     ELSE verifier' = [verifier EXCEPT !.timer = "fired"]
  /\ verifyFrame

\* Time passes, up to the next timer that is due.
tick ==
  /\ verifier.pc # "start"
  /\ verifier.now < MaxTicks * retryMS
  /\ ~ (verifier.timer = "armed" /\ verifier.now >= verifier.deadline)
  /\ ~ (verifier.ping = "waiting" /\ verifier.now >= verifier.retryAt)
  /\ verifier' = [verifier EXCEPT !.now = verifier.now + retryMS]
  /\ verifyFrame

\* The server answers the CHECK command: check returns, and so does verify.
runResponds ==
  /\ verifier.pc = "checking"
  /\ \E response \in Responses :
       verifier' = [verifier EXCEPT !.pc = "done",
                                    !.response = response,
                                    !.outcome = check(response)]
  /\ verifyFrame

NextVerify ==
  \/ verifyStart
  \/ pingFails
  \/ retryPing
  \/ pingSucceeds
  \/ timeoutFires
  \/ tick
  \/ runResponds

\* Timers that are due fire, and time passes; the server need not answer.
SpecVerify ==
  /\ InitVerify
  /\ [][NextVerify]_vars
  /\ WF_vars(verifyStart)
  /\ WF_vars(retryPing)
  /\ WF_vars(timeoutFires)
  /\ WF_vars(tick)

(***************************************************************************)
(* Claims about verify.                                                    *)
(***************************************************************************)
Answered == verifier.pc = "done" /\ verifier.response.result # "none"

ParsedFailure(errorType) ==
  /\ verifier.response.result = "failure"
  /\ verifier.response.errorType = errorType
  /\ verifier.response.data.json = "object"

BoundedCheckerFailure(checking) ==
  /\ ParsedFailure("PASS_FAILURE")
  /\ verifier.response.data.pass_name = "BoundedChecker"
  /\ verifier.response.data.error_data.checking_result = checking

CarriesTraces(explanation) ==
  /\ verifier.outcome.tag = "left"
  /\ verifier.outcome.explanation = explanation
  /\ verifier.outcome.traces.defined
  /\ verifier.outcome.traces.itf = verifier.response.data.error_data.counterexamples
  /\ verifier.outcome.errors = <<>>

LocatingFails ==
  \/ verifier.env.APALACHE_DIST = Unset
  \/ ~ verifier.env.distExists
  \/ ~ verifier.env.jarAndExeExist

LoadingFails ==
  \/ ~ verifier.env.jarUtilityIsInstalled
  \/ ~ verifier.env.protoIsFileExtracted

\* C11: every failure at the boundary to the verification backend (the
\* connection timeout, an UNEXPECTED response, a payload that does not parse,
\* a PASS_FAILURE response of any pass and any checking result) is returned
\* by verify as a left value, never thrown or rejected.
C11_BoundaryFailuresAreLeft ==
  (/\ verifier.pc = "done"
   /\ \/ verifier.connected = "timeout"
      \/ verifier.response.result = "failure")
  => verifier.outcome.tag = "left"

\* C12: connect always completes: whatever the server does, a connect that has
\* started eventually returns, with a connection only when a ping succeeded
\* before the timeout, and with the error 'Failed to obtain a connection to
\* Apalache after 5 seconds.' only once 5000 ms have passed.
C12_ConnectAlwaysCompletes ==
  /\ (verifier.pc = "connecting") ~> (verifier.connected # "pending")
  /\ [](verifier.connected = "connection" => verifier.pong = "in time")
  /\ [](verifier.connected = "timeout" =>
          /\ verifier.now >= 5000
          /\ verifier.outcome.tag = "left"
          /\ verifier.outcome.explanation =
               "Failed to obtain a connection to Apalache after 5 seconds.")

\* connect returned the timeout error while its only ping was never answered.
C12_Witness ==
  /\ verifier.pc = "done"
  /\ verifier.connected = "timeout"
  /\ verifier.ping = "inflight"
  /\ verifier.pings = 1

\* C13: check maps each response to one result: success to right(void); an
\* UNEXPECTED failure to left with the payload's message; a PASS_FAILURE of
\* the BoundedChecker pass to left with 'found a counterexample' for Error
\* and 'reached a deadlock' for Deadlock, with the response's traces and no
\* errors.
C13_CheckMapsResponses ==
  Answered =>
    /\ verifier.response.result = "success" => verifier.outcome = RightVoid
    /\ ParsedFailure("UNEXPECTED") =>
         /\ verifier.outcome.tag = "left"
         /\ verifier.outcome.explanation = verifier.response.data.msg
    /\ BoundedCheckerFailure("Error") => CarriesTraces("found a counterexample")
    /\ BoundedCheckerFailure("Deadlock") => CarriesTraces("reached a deadlock")

\* The server answered CHECK with a deadlock of the BoundedChecker pass.
C13_Witness ==
  /\ Answered
  /\ BoundedCheckerFailure("Deadlock")
  /\ verifier.outcome.explanation = "reached a deadlock"
  /\ verifier.outcome.traces.itf # <<>>

\* C18: once connect has returned the timeout error, the retry loop makes no
\* further ping attempt.
C18_NoPingAfterTimeout ==
  [][verifier.connected = "timeout" => verifier'.pings = verifier.pings]_vars

\* C20: a CHECK request is sent only after a ping succeeded before the
\* timeout; when locating the distribution fails, loading the client fails or
\* the timeout wins the race, no CHECK request is sent and verify returns
\* that earlier error.
C20_CheckOnlyAfterPing ==
  /\ verifier.checkSent => verifier.pong = "in time"
  /\ (LocatingFails \/ LoadingFails \/ verifier.connected = "timeout") =>
       ~ verifier.checkSent
  /\ (verifier.pc = "done"
      /\ (LocatingFails \/ LoadingFails \/ verifier.connected = "timeout")) =>
       verifier.outcome.tag = "left"

(***************************************************************************)
(* collectDefinitions: the table of the names and types a module defines.  *)
(* The reduce is seeded with the arrays defaultDefinitions and             *)
(* defaultTypes themselves, and push appends to the array it is called on. *)
(***************************************************************************)
\* The number of calls of collectDefinitions.
MaxCalls == 2

UndefinedEx == [kind |-> "undefined"]

NameEx == [kind |-> "name", id |-> 1, name |-> "x"]

LambdaEx == [kind |-> "lambda", id |-> 2, params |-> <<"p", "q">>, expr |-> NameEx]

LetEx ==
  [kind |-> "let", id |-> 3,
   opdef |-> [qualifier |-> "val", name |-> "h", expr |-> LambdaEx],
   expr |-> NameEx]

AppEx == [kind |-> "app", id |-> 4, opcode |-> "and", args |-> <<LambdaEx, LetEx>>]

\* A definition of a module, as collectDefinitions reads it.
TntDef(kind, name, expr) ==
  [kind |-> kind, name |-> name, expr |-> expr, module |-> [name |-> name],
   type |-> [kind |-> "int"]]

CollectDefs ==
  {TntDef("const", "N", UndefinedEx), TntDef("var", "x", UndefinedEx),
   TntDef("def", "f", UndefinedEx), TntDef("def", "g", AppEx),
   TntDef("instance", "I", UndefinedEx), TntDef("module", "Inner", UndefinedEx),
   TntDef("typedef", "T", UndefinedEx), TntDef("assume", "A", NameEx)}

\* The modules collectDefinitions is called on.
CollectModules ==
  {<<>>}
  \cup {<<d>> : d \in CollectDefs}
  \cup {<<TntDef("const", "N", UndefinedEx), TntDef("def", "g", AppEx)>>,
        <<TntDef("typedef", "T", UndefinedEx), TntDef("var", "x", UndefinedEx)>>}

RECURSIVE collectFromExpr(_)
RECURSIVE collectFromArgs(_)

\* expr.args.flatMap(collectFromExpr)
collectFromArgs(args) ==
  IF args = <<>> THEN <<>>
  ELSE collectFromExpr(Head(args)) \o collectFromArgs(Tail(args))

collectFromExpr(expr) ==
  IF expr.kind = "lambda"
  THEN [i \in DOMAIN expr.params |-> ScopedDefinition("def", expr.params[i], expr.id)]
       \o collectFromExpr(expr.expr)
  ELSE IF expr.kind = "app"
  THEN collectFromArgs(expr.args)
  ELSE IF expr.kind = "let"
  THEN <<ScopedDefinition(expr.opdef.qualifier, expr.opdef.name, expr.id)>>
       \o collectFromExpr(expr.opdef.expr)
       \o collectFromExpr(expr.expr)
  ELSE <<>>

\* What one definition pushes on table.nameDefinitions.
pushedNames(def) ==
  IF def.kind \in {"const", "var"}
  THEN <<NameDefinition(def.kind, def.name)>>
  ELSE IF def.kind = "def"
  THEN <<NameDefinition(def.kind, def.name)>>
       \o (IF def.expr.kind # "undefined" THEN collectFromExpr(def.expr) ELSE <<>>)
  ELSE IF def.kind = "instance"
  THEN <<NameDefinition("namespace", def.name)>>
  ELSE IF def.kind = "module"
  THEN <<NameDefinition("namespace", def.module.name)>>
  ELSE <<>>

\* What one definition pushes on table.typeDefinitions.
pushedTypes(def) ==
  IF def.kind = "typedef"
  THEN <<[identifier |-> def.name, type |-> def.type]>>
  ELSE <<>>

RECURSIVE reduceDefs(_, _)

\* tntModule.defs.reduce(callback, table)
reduceDefs(defs, table) ==
  IF defs = <<>> THEN table
  ELSE reduceDefs(Tail(defs),
                  [nameDefinitions |-> table.nameDefinitions \o pushedNames(Head(defs)),
                   typeDefinitions |-> table.typeDefinitions \o pushedTypes(Head(defs))])

InitCollect ==
  /\ Idle([tntModule |-> <<>>, effects |-> EmptyMap])
  /\ lattice = NoLattice
  /\ fold = NoFold
  /\ verifier = NoVerify
  /\ NotCollected

\* A call of collectDefinitions.  The table's two arrays are the exported
\* arrays: what is pushed on the table is pushed on them.
collectDefinitions ==
  /\ Len(tables) < MaxCalls
  /\ \E defs \in CollectModules :
       LET table == reduceDefs(defs, [nameDefinitions |-> defaultDefinitions,
                                      typeDefinitions |-> defaultTypes])
       IN /\ defaultDefinitions' = table.nameDefinitions
          /\ defaultTypes' = table.typeDefinitions
          /\ tables' = Append(tables, [defs |-> defs, table |-> table])
  /\ UNCHANGED <<tntModule, effects, pc, idx, errors, suggestions, currentMode, modes,
                 result, phase, first, lattice, fold, verifier>>

NextCollect == collectDefinitions

SpecCollect == InitCollect /\ [][NextCollect]_vars

RECURSIVE ownNames(_)

\* The name definitions of a module's own definitions, in document order.
ownNames(defs) ==
  IF defs = <<>> THEN <<>> ELSE pushedNames(Head(defs)) \o ownNames(Tail(defs))

\* C21: collectDefinitions leaves defaultDefinitions and defaultTypes as they
\* were: after any calls defaultDefinitions holds the built-in names, each
\* returned table holds the built-in names followed by the names of its own
\* module, and two successive calls on the same module return equal tables.
C21_DefaultsUnmodified ==
  /\ defaultDefinitions = builtinDefinitions
  /\ defaultTypes = <<>>
  /\ \A i \in DOMAIN tables :
       tables[i].table.nameDefinitions = builtinDefinitions \o ownNames(tables[i].defs)
  /\ \A i \in DOMAIN tables :
       (i + 1 \in DOMAIN tables /\ tables[i + 1].defs = tables[i].defs) =>
         tables[i + 1].table = tables[i].table

====
